---- MODULE Spec2Model ----
(***************************************************************************)
(* yakui-macroquad (src/src/lib.rs): the glue between the yakui UI library  *)
(* (through YakuiMiniQuad) and the macroquad engine.                        *)
(*                                                                          *)
(* The program is one thread: macroquad's main loop, the user's code and    *)
(* the closures it passes to ui and cfg.  The state is the global slot      *)
(* YAKUI behind its RwLock, the engine's input queue and pending draw       *)
(* commands, and what the UI library has been told.  A public call that     *)
(* takes no closure is one step; ui and cfg are entered, run the closure    *)
(* step by step, and return or unwind.                                      *)
(***************************************************************************)
EXTENDS Naturals, Sequences, FiniteSets

VARIABLES
    YAKUI,       \* the Option in the global slot: <<>> (None) or <<[sub |-> id]>> (Some)
    guards,      \* live RwLockWriteGuards on YAKUI
    poisoned,    \* the RwLock's poison flag
    closure,     \* whose closure is executing: "none", "ui" or "cfg"
    built,       \* UI-building operations done by the running closure or bracket
    registered,  \* engine: input subscriber ids handed out so far
    created,     \* how many times Yakui::new has run
    queue,       \* engine: events queued for subscriber YAKUI[1].sub
    pending_gl,  \* engine: draw commands queued and not yet flushed
    phase,       \* UI library: the frame bracket, "none", "started" or "finished"
    focus,       \* UI library: the three focus flags
    call,        \* the public call entered last
    trace,       \* effects on the UI library and the engine's gl, in order
    q0,          \* the events the engine dispatched in the last replay
    bracket,     \* the bracket call entered last without a panic: "start", "finish", "ui"
    alive,       \* FALSE once a panic has ended the process
    pc,          \* position in the documented frame loop
    f0,          \* frame loop: UI-building operations of this frame's closure
    qf,          \* frame loop: the events the engine queued before this frame
    variant      \* frame loop: "bracket" (start/finish) or "ui" (the helper)

vars == <<YAKUI, guards, poisoned, closure, built, registered, created, queue,
          pending_gl, phase, focus, call, trace, q0, bracket, alive, pc, f0, qf,
          variant>>

loopVars == <<pc, f0, qf, variant>>

----------------------------------------------------------------------------
(* Bounds *)

MaxQueue == 2        \* events the engine holds for the subscriber
MaxWidgets == 2      \* UI-building operations of one closure
MaxGl == 1           \* engine draw commands pending at once
MaxOthers == 1       \* input subscribers registered before this library's

----------------------------------------------------------------------------
(* The engine's input events (MiniquadInputEvent) and the handler           *)

None == <<>>
Some(y) == <<y>>

\* One event of each kind; the arguments of an event differ from one another
\* and from kind to kind, so that a handler that swaps or replaces them shows.
MouseEvents ==
    { <<"MouseMotion", 1, 2>>,
      <<"MouseWheel", 3, 4>>,
      <<"MouseButtonDown", 1, 2, 3>>,
      <<"MouseButtonUp", 2, 3, 4>> }

KeyEvents ==
    { <<"Char", 1, 2, 3>>,
      <<"KeyDown", 2, 3, 4>>,
      <<"KeyUp", 1, 2>> }

AllEvents == MouseEvents \cup KeyEvents

\* The events the API specification draws from: one mouse, one keyboard.
SomeEvents == { <<"MouseButtonDown", 1, 2, 3>>, <<"KeyUp", 1, 2>> }

\* impl mq::EventHandler for Yakui: each method's calls on self.0.
update == <<>>

draw_callback == <<>>

mouse_motion_event(x, y) == << <<"mouse_motion_event", x, y>> >>

mouse_wheel_event(dx, dy) == << <<"mouse_wheel_event", dx, dy>> >>

mouse_button_down_event(mb, x, y) == << <<"mouse_button_down_event", mb, x, y>> >>

\* Mutant: the button release is forwarded as a press.
mouse_button_up_event_as_down(mb, x, y) == << <<"mouse_button_down_event", mb, x, y>> >>

mouse_button_up_event(mb, x, y) == << <<"mouse_button_up_event", mb, x, y>> >>

char_event(character, keymods, repeat) == << <<"char_event", character, keymods, repeat>> >>

key_down_event(keycode, keymods, repeat) == << <<"key_down_event", keycode, keymods, repeat>> >>

key_up_event(keycode, keymods) == << <<"key_up_event", keycode, keymods>> >>

\* repeat_all_miniquad_input's dispatch of one queued event to the handler.
Dispatch(e) ==
    CASE e[1] = "MouseMotion"     -> mouse_motion_event(e[2], e[3])
      [] e[1] = "MouseWheel"      -> mouse_wheel_event(e[2], e[3])
      [] e[1] = "MouseButtonDown" -> mouse_button_down_event(e[2], e[3], e[4])
      [] e[1] = "MouseButtonUp"   -> mouse_button_up_event(e[2], e[3], e[4])
      [] e[1] = "Char"            -> char_event(e[2], e[3], e[4])
      [] e[1] = "KeyDown"         -> key_down_event(e[2], e[3], e[4])
      [] e[1] = "KeyUp"           -> key_up_event(e[2], e[3])

\* repeat_all_miniquad_input(self, self.1): every queued event, oldest first.
RECURSIVE RepeatAll(_)
RepeatAll(q) == IF q = <<>> THEN <<>> ELSE Dispatch(Head(q)) \o RepeatAll(Tail(q))

----------------------------------------------------------------------------
(* The UI library as this crate sees it                                     *)

FocusFns == {"has_input_focus", "has_keyboard_focus", "has_mouse_focus"}

PublicFns == {"start", "finish", "ui", "cfg", "draw"} \cup FocusFns

NoFocus == [fn \in FocusFns |-> FALSE]

\* The flags the library may show after it was handed events: nothing sunk, a
\* keyboard event sunk, a mouse event sunk.
FocusChoices ==
    { NoFocus,
      [fn \in FocusFns |-> fn \in {"has_input_focus", "has_keyboard_focus"}],
      [fn \in FocusFns |-> fn \in {"has_input_focus", "has_mouse_focus"}] }

\* Whether the library sank an event is the library's business.
FocusAfter(q) == IF q = <<>> THEN {focus} ELSE FocusChoices

----------------------------------------------------------------------------
(* get_yakui: the lock and the lazy slot                                    *)

\* YAKUI.try_write(): WouldBlock while a guard is live, Poisoned once a guard
\* was dropped by a panic, else the guard.
\* Mutant: the lock is taken without looking at it.
TryWrite_unchecked == "Ok"

TryWrite ==
    IF guards > 0 THEN "WouldBlock"
    ELSE IF poisoned THEN "Poisoned"
    ELSE "Ok"

\* Mutant: the slot is taken for empty on every call.
is_some_never == FALSE

is_some == YAKUI # None

\* Yakui::new: the context, and the id register_input_subscriber hands out.
Yakui_new == [sub |-> registered]

NewRuns == IF is_some THEN 0 ELSE 1

\* The Ok arm of get_yakui: the slot is filled if it was empty.
get_yakui ==
    /\ YAKUI' = IF is_some THEN YAKUI ELSE Some(Yakui_new)
    /\ registered' = registered + NewRuns
    /\ created' = created + NewRuns

\* A guard goes out of scope.
DropGuard(g) == g - 1

\* A panic unwinds to the top of the user's code: every guard on the way is
\* dropped by a panicking thread, which poisons the lock.  The process goes on
\* if the user catches the panic and ends if not.
Unwind ==
    /\ poisoned' = (poisoned \/ guards > 0)
    /\ guards' = 0
    /\ closure' = "none"
    /\ alive' \in BOOLEAN

\* The Err arm of get_yakui: panic!("tried to borrow yakui mutably twice ...").
BorrowPanic(fn, t0) ==
    /\ call' = [fn |-> fn, result |-> "panic_borrow", nested |-> closure # "none",
                held |-> guards > 0, ret |-> FALSE]
    /\ Unwind
    /\ trace' = t0
    /\ UNCHANGED <<YAKUI, registered, created, queue, pending_gl, phase, focus,
                   q0, built, bracket>>

NoCall ==
    [fn |-> "none", result |-> "ok", nested |-> FALSE, held |-> FALSE, ret |-> FALSE]

Entered(fn, res, r) ==
    [fn |-> fn, result |-> res, nested |-> closure # "none", held |-> guards > 0,
     ret |-> r]

----------------------------------------------------------------------------
(* impl Yakui                                                               *)

\* repeat_all_miniquad_input drains the subscriber's queue into the handler.
Replay ==
    /\ q0' = queue
    /\ queue' = <<>>
    /\ focus' \in FocusAfter(queue)

\* Mutant: start forgets to replay the queued input.
Yakui_start_no_replay(t0) ==
    /\ trace' = t0 \o << <<"start">> >>
    /\ phase' = "started"
    /\ UNCHANGED <<queue, q0, focus>>

Yakui_start(t0) ==
    /\ Replay
    /\ trace' = t0 \o RepeatAll(queue) \o << <<"start">> >>
    /\ phase' = "started"

Yakui_finish(t0) ==
    /\ trace' = t0 \o << <<"finish">> >>
    /\ phase' = "finished"

\* Mutant: ui forgets to replay the queued input.
Yakui_ui_enter_no_replay(t0) ==
    /\ trace' = t0 \o << <<"start">> >>
    /\ phase' = "started"
    /\ UNCHANGED <<queue, q0, focus>>

\* Yakui::ui up to the closure: the replay, then self.0.run(f), which starts
\* the frame, runs f and finishes the frame.
Yakui_ui_enter(t0) ==
    /\ Replay
    /\ trace' = t0 \o RepeatAll(queue) \o << <<"start">> >>
    /\ phase' = "started"

\* Yakui::ui after the closure returned: the end of self.0.run(f).
Yakui_ui_return ==
    /\ trace' = trace \o << <<"finish">> >>
    /\ phase' = "finished"

\* Mutant: the library draws before the engine's commands are flushed.
Yakui_draw_before_flush(t0) ==
    /\ trace' = t0 \o << <<"draw", pending_gl>>, <<"flush", pending_gl>> >>
    /\ pending_gl' = 0

\* Yakui::draw: gl.flush() leaves nothing pending, then the library draws.
Yakui_draw(t0) ==
    LET flushed == 0
    IN  /\ trace' = t0 \o << <<"flush", pending_gl>>, <<"draw", flushed>> >>
        /\ pending_gl' = flushed

----------------------------------------------------------------------------
(* The public functions                                                     *)

\* Mutant: the three queries all return has_input_focus (a copied body).
has_focus_copied(fn, t0) ==
    /\ alive
    /\ IF TryWrite # "Ok" THEN BorrowPanic(fn, t0)
       ELSE /\ get_yakui
            /\ guards' = DropGuard(guards + 1)
            /\ call' = Entered(fn, "ok", focus["has_input_focus"])
            /\ trace' = t0 \o << <<fn>> >>
            /\ UNCHANGED <<poisoned, closure, built, queue, pending_gl, phase,
                           focus, q0, bracket, alive>>

\* has_input_focus, has_keyboard_focus, has_mouse_focus: the library's flag.
has_focus(fn, t0) ==
    /\ alive
    /\ IF TryWrite # "Ok" THEN BorrowPanic(fn, t0)
       ELSE /\ get_yakui
            /\ guards' = DropGuard(guards + 1)
            /\ call' = Entered(fn, "ok", focus[fn])
            /\ trace' = t0 \o << <<fn>> >>
            /\ UNCHANGED <<poisoned, closure, built, queue, pending_gl, phase,
                           focus, q0, bracket, alive>>

start(t0) ==
    /\ alive
    /\ IF TryWrite # "Ok" THEN BorrowPanic("start", t0)
       ELSE /\ get_yakui
            /\ Yakui_start(t0)
            /\ guards' = DropGuard(guards + 1)
            /\ call' = Entered("start", "ok", FALSE)
            /\ built' = 0
            /\ bracket' = "start"
            /\ UNCHANGED <<poisoned, closure, pending_gl, alive>>

finish(t0) ==
    /\ alive
    /\ IF TryWrite # "Ok" THEN BorrowPanic("finish", t0)
       ELSE /\ get_yakui
            /\ Yakui_finish(t0)
            /\ guards' = DropGuard(guards + 1)
            /\ call' = Entered("finish", "ok", FALSE)
            /\ bracket' = "finish"
            /\ UNCHANGED <<poisoned, closure, built, queue, pending_gl, focus,
                           q0, alive>>

draw(t0) ==
    /\ alive
    /\ IF TryWrite # "Ok" THEN BorrowPanic("draw", t0)
       ELSE /\ get_yakui
            /\ Yakui_draw(t0)
            /\ guards' = DropGuard(guards + 1)
            /\ call' = Entered("draw", "ok", FALSE)
            /\ UNCHANGED <<poisoned, closure, built, queue, phase, focus, q0,
                           bracket, alive>>

\* ui up to the call of f: the guard stays live while f runs.
ui_enter(t0) ==
    /\ alive
    /\ IF TryWrite # "Ok" THEN BorrowPanic("ui", t0)
       ELSE /\ get_yakui
            /\ Yakui_ui_enter(t0)
            /\ guards' = guards + 1
            /\ closure' = "ui"
            /\ call' = Entered("ui", "running", FALSE)
            /\ built' = 0
            /\ bracket' = "ui"
            /\ UNCHANGED <<poisoned, pending_gl, alive>>

\* f returned to ui: the frame is finished and the guard dropped.
ui_return ==
    /\ alive
    /\ closure = "ui"
    /\ Yakui_ui_return
    /\ guards' = DropGuard(guards)
    /\ closure' = "none"
    /\ call' = [call EXCEPT !.result = "ok"]
    /\ UNCHANGED <<YAKUI, poisoned, built, registered, created, queue, pending_gl,
                   focus, q0, bracket, alive>>

\* cfg up to the call of f: the argument's guard lives to the end of the
\* statement f(...), so while f runs.
cfg_enter(t0) ==
    /\ alive
    /\ IF TryWrite # "Ok" THEN BorrowPanic("cfg", t0)
       ELSE /\ get_yakui
            /\ trace' = t0 \o << <<"ctx">> >>
            /\ guards' = guards + 1
            /\ closure' = "cfg"
            /\ call' = Entered("cfg", "running", FALSE)
            /\ built' = 0
            /\ UNCHANGED <<poisoned, queue, pending_gl, phase, focus, q0, bracket,
                           alive>>

cfg_return ==
    /\ alive
    /\ closure = "cfg"
    /\ guards' = DropGuard(guards)
    /\ closure' = "none"
    /\ call' = [call EXCEPT !.result = "ok"]
    /\ UNCHANGED <<YAKUI, poisoned, built, registered, created, queue, pending_gl,
                   phase, focus, trace, q0, bracket, alive>>

----------------------------------------------------------------------------
(* The user's closure and the engine                                        *)

\* The closure works on the context it was handed.
ClosureBuild ==
    /\ alive
    /\ closure # "none"
    /\ built < MaxWidgets
    /\ built' = built + 1
    /\ trace' = Append(trace, <<"widget", built + 1>>)
    /\ UNCHANGED <<YAKUI, guards, poisoned, closure, registered, created, queue,
                   pending_gl, phase, focus, call, q0, bracket, alive>>

\* The closure panics: the panic unwinds through ui or cfg.
ClosurePanic ==
    /\ alive
    /\ closure # "none"
    /\ call' = [call EXCEPT !.result = "panic_user"]
    /\ Unwind
    /\ UNCHANGED <<YAKUI, built, registered, created, queue, pending_gl, phase,
                   focus, trace, q0, bracket>>

\* The engine queues an input event for each registered subscriber; it does so
\* between the user's polls, never while a closure runs.  The record of the
\* call made last (call, trace, q0) ends here.
EngineInput(E) ==
    /\ alive
    /\ closure = "none"
    /\ YAKUI # None
    /\ Len(queue) < MaxQueue
    /\ \E e \in E : queue' = Append(queue, e)
    /\ call' = NoCall
    /\ trace' = <<>>
    /\ q0' = <<>>
    /\ UNCHANGED <<YAKUI, guards, poisoned, closure, built, registered, created,
                   pending_gl, phase, focus, bracket, alive>>

\* The user draws with the engine (draw_rectangle, ...): one more pending command.
EngineDraw ==
    /\ alive
    /\ pending_gl < MaxGl
    /\ pending_gl' = pending_gl + 1
    /\ UNCHANGED <<YAKUI, guards, poisoned, closure, built, registered, created,
                   queue, phase, focus, call, trace, q0, bracket, alive>>

----------------------------------------------------------------------------
(* Spec: any sequence of public calls, nested or not, panics caught or not  *)

Construction ==
    /\ YAKUI = None
    /\ guards = 0
    /\ poisoned = FALSE
    /\ closure = "none"
    /\ built = 0
    /\ registered \in {0, MaxOthers}
    /\ created = 0
    /\ queue = <<>>
    /\ pending_gl = 0
    /\ phase = "none"
    /\ focus = NoFocus
    /\ call = NoCall
    /\ trace = <<>>
    /\ q0 = <<>>
    /\ bracket = "none"
    /\ alive = TRUE
    /\ f0 = 0
    /\ qf = <<>>
    /\ variant = "none"

Init == Construction /\ pc = "api"

\* A top-level call starts a fresh record of effects.
T0 == IF closure = "none" THEN <<>> ELSE trace

ApiHasFocus == (\E fn \in FocusFns : has_focus(fn, T0)) /\ UNCHANGED loopVars

ApiStart == start(T0) /\ UNCHANGED loopVars

ApiFinish == finish(T0) /\ UNCHANGED loopVars

ApiDraw == draw(T0) /\ UNCHANGED loopVars

ApiUi == ui_enter(T0) /\ UNCHANGED loopVars

ApiUiReturn == ui_return /\ UNCHANGED loopVars

ApiCfg == cfg_enter(T0) /\ UNCHANGED loopVars

ApiCfgReturn == cfg_return /\ UNCHANGED loopVars

ApiClosureBuild == ClosureBuild /\ UNCHANGED loopVars

ApiClosurePanic == ClosurePanic /\ UNCHANGED loopVars

ApiEngineInput == EngineInput(SomeEvents) /\ UNCHANGED loopVars

ApiEngineDraw == EngineDraw /\ UNCHANGED loopVars

Next ==
    \/ ApiHasFocus
    \/ ApiStart
    \/ ApiFinish
    \/ ApiDraw
    \/ ApiUi
    \/ ApiUiReturn
    \/ ApiCfg
    \/ ApiCfgReturn
    \/ ApiClosureBuild
    \/ ApiClosurePanic
    \/ ApiEngineInput
    \/ ApiEngineDraw

Spec == Init /\ [][Next]_vars

----------------------------------------------------------------------------
(* SpecRelay: the engine queues events of every kind, start and ui replay   *)

RelayEngineInput == EngineInput(AllEvents) /\ UNCHANGED loopVars

RelayStart == start(T0) /\ UNCHANGED loopVars

RelayUi == ui_enter(T0) /\ UNCHANGED loopVars

RelayUiReturn == ui_return /\ UNCHANGED loopVars

NextRelay ==
    \/ RelayEngineInput
    \/ RelayStart
    \/ RelayUi
    \/ RelayUiReturn

SpecRelay == Init /\ [][NextRelay]_vars

----------------------------------------------------------------------------
(* SpecLoop: the documented frame loop (crate docs, lines 13-42), a frame   *)
(* being start(); build; finish(); draw() or ui(f); draw(), then            *)
(* next_frame().await.  No panic is caught: a panic in f ends the process.  *)

BoundedSeq(S, n) == UNION { [1..k -> S] : k \in 0..n }

InitLoop == Construction /\ pc = "frame"

\* yakui_macroquad::start() opens the frame.
LoopStart ==
    /\ pc = "frame"
    /\ start(<<>>)
    /\ \E f \in 0..MaxWidgets : f0' = f
    /\ variant' = "bracket"
    /\ pc' = "build"
    /\ UNCHANGED qf

\* The user builds the UI between start() and finish().
LoopBuild ==
    /\ pc = "build"
    /\ alive
    /\ built < f0
    /\ built' = built + 1
    /\ trace' = Append(trace, <<"widget", built + 1>>)
    /\ UNCHANGED <<YAKUI, guards, poisoned, closure, registered, created, queue,
                   pending_gl, phase, focus, call, q0, bracket, alive, loopVars>>

LoopFinish ==
    /\ pc = "build"
    /\ built = f0
    /\ finish(trace)
    /\ pc' = "draw"
    /\ UNCHANGED <<f0, qf, variant>>

\* yakui_macroquad::ui(f) opens the frame instead.
LoopUi ==
    /\ pc = "frame"
    /\ ui_enter(<<>>)
    /\ \E f \in 0..MaxWidgets : f0' = f
    /\ variant' = "ui"
    /\ pc' = "closure"
    /\ UNCHANGED qf

LoopClosureBuild ==
    /\ pc = "closure"
    /\ built < f0
    /\ ClosureBuild
    /\ UNCHANGED loopVars

LoopUiReturn ==
    /\ pc = "closure"
    /\ built = f0
    /\ ui_return
    /\ pc' = "draw"
    /\ UNCHANGED <<f0, qf, variant>>

\* The UI-building code panics, in the closure or between start and finish.
LoopPanic ==
    /\ alive
    /\ alive' = FALSE
    /\ pc' = "exit"
    /\ \/ /\ pc = "closure"
          /\ ClosurePanic
       \/ /\ pc = "build"
          /\ UNCHANGED <<YAKUI, guards, poisoned, closure, built, registered,
                         created, queue, pending_gl, phase, focus, call, trace,
                         q0, bracket>>
    /\ UNCHANGED <<f0, qf, variant>>

LoopDraw ==
    /\ pc = "draw"
    /\ draw(trace)
    /\ pc' = "next"
    /\ UNCHANGED <<f0, qf, variant>>

\* clear_background and the game's own drawing, anywhere in the frame.
LoopEngineDraw ==
    /\ pc \in {"frame", "build", "closure", "draw"}
    /\ EngineDraw
    /\ UNCHANGED loopVars

\* next_frame().await: the engine presents the frame, then queues the input
\* that arrived for the subscriber, if it is registered.
LoopNextFrame ==
    /\ pc = "next"
    /\ alive
    /\ \E evs \in BoundedSeq(SomeEvents, MaxQueue) :
          /\ YAKUI = None => evs = <<>>
          /\ queue' = queue \o evs
          /\ qf' = queue \o evs
    /\ pending_gl' = 0
    /\ call' = NoCall
    /\ trace' = <<>>
    /\ q0' = <<>>
    /\ pc' = "frame"
    /\ UNCHANGED <<YAKUI, guards, poisoned, closure, built, registered, created,
                   phase, focus, bracket, alive, f0, variant>>

NextLoop ==
    \/ LoopStart
    \/ LoopBuild
    \/ LoopFinish
    \/ LoopUi
    \/ LoopClosureBuild
    \/ LoopUiReturn
    \/ LoopPanic
    \/ LoopDraw
    \/ LoopEngineDraw
    \/ LoopNextFrame

SpecLoop == InitLoop /\ [][NextLoop]_vars

----------------------------------------------------------------------------
(* What the claims say                                                      *)

\* The UI library's handler of the same kind as an engine event.
HandlerOf(kind) ==
    CASE kind = "MouseMotion"     -> "mouse_motion_event"
      [] kind = "MouseWheel"      -> "mouse_wheel_event"
      [] kind = "MouseButtonDown" -> "mouse_button_down_event"
      [] kind = "MouseButtonUp"   -> "mouse_button_up_event"
      [] kind = "Char"            -> "char_event"
      [] kind = "KeyDown"         -> "key_down_event"
      [] kind = "KeyUp"           -> "key_up_event"

HandlerNames == { HandlerOf(e[1]) : e \in AllEvents }

\* One event relayed 1:1: the same kind, the same arguments in the same order.
Forwarded(e) == [e EXCEPT ![1] = HandlerOf(e[1])]

ForwardedAll(q) == [i \in 1..Len(q) |-> Forwarded(q[i])]

NoInputIn(t) == \A i \in 1..Len(t) : t[i][1] \notin HandlerNames

NoBracketIn(t) == \A i \in 1..Len(t) : t[i][1] \notin {"start", "finish"}

\* The frame so far: the queued input replayed, one start, n building operations.
FrameOpen(n) ==
    ForwardedAll(qf) \o << <<"start">> >> \o [i \in 1..n |-> <<"widget", i>>]

\* C1: the context is created lazily and once.  The call that finds the slot
\* empty fills it and registers one input subscriber, whose id the context
\* keeps; once filled the slot never changes again and nothing more is
\* registered; a call that got past get_yakui leaves the slot filled.
C1_LazyInitOnce ==
    [][ /\ (YAKUI # None => YAKUI' = YAKUI /\ registered' = registered)
        /\ (YAKUI = None /\ YAKUI' # None =>
               /\ YAKUI' = Some([sub |-> registered])
               /\ registered' = registered + 1)
        /\ created' <= 1
        /\ (YAKUI' = None <=> created' = 0)
        /\ (call'.fn # "none" /\ call'.result # "panic_borrow" => YAKUI' # None)
      ]_vars

\* C1 witness: the context exists and later calls (a finish, then a draw) ran on it.
C1_Witness ==
    /\ YAKUI # None
    /\ created = 1
    /\ bracket = "finish"
    /\ call.fn = "draw"
    /\ call.result = "ok"

\* C2: a public call made while the closure of ui or cfg runs panics with the
\* borrow error and gets no access; at most one write guard is ever live, and
\* it is live exactly while a closure runs.
C2_ReentrancyGuard ==
    /\ guards <= 1
    /\ (closure # "none" <=> guards = 1)
    /\ (call.nested => call.result = "panic_borrow" /\ call.held)

\* C2 witness: a nested call has panicked with the borrow error.
C2_Witness ==
    /\ call.nested
    /\ call.fn = "has_input_focus"
    /\ call.result = "panic_borrow"

\* C3: ui(f) has the effects of start(); f; finish().  Whichever of the two the
\* frame uses, once the bracket is closed the UI library has seen the queued
\* input replayed, one start, f's operations and one finish, in that order;
\* and if f panics, the same up to the panic.
C3_UiIsStartFinish ==
    /\ (pc = "draw" => trace = FrameOpen(f0) \o << <<"finish">> >>)
    /\ (pc = "exit" => trace = FrameOpen(built))

\* C3 witness: ui(f) returned, with input replayed and f having built something.
C3_Witness ==
    /\ pc = "draw"
    /\ variant = "ui"
    /\ Len(qf) = 2
    /\ f0 = 2

\* C4: a draw() that runs flushes the engine's pending commands once, then
\* lets the UI library draw once, which then finds nothing pending.
C4_FlushBeforeDraw ==
    (call.fn = "draw" /\ call.result = "ok") =>
        /\ Len(trace) = 2
        /\ trace[1][1] = "flush"
        /\ trace[2] = <<"draw", 0>>

\* C4 witness: draw() ran with an engine command pending.
C4_Witness ==
    /\ call.fn = "draw"
    /\ call.result = "ok"
    /\ trace # <<>>
    /\ <<"flush", 1>> \in { trace[i] : i \in 1..Len(trace) }

\* C5: after a start or ui that replayed, the UI library has received exactly
\* the events the engine dispatched, each by the handler of its kind with its
\* arguments, in the order dispatched, none left in the queue; the update and
\* draw callbacks forward nothing.
C5_RelayOneToOne ==
    /\ update = <<>>
    /\ draw_callback = <<>>
    /\ (call.fn \in {"start", "ui"} /\ call.result \in {"ok", "running"}) =>
          /\ Len(trace) >= Len(q0)
          /\ SubSeq(trace, 1, Len(q0)) = ForwardedAll(q0)
          /\ NoInputIn(SubSeq(trace, Len(q0) + 1, Len(trace)))
          /\ queue = <<>>

\* C5 witness: start() replayed a button release followed by a character.
C5_Witness ==
    /\ call.fn = "start"
    /\ call.result = "ok"
    /\ Len(q0) = 2
    /\ q0[1][1] = "MouseButtonUp"
    /\ q0[2][1] = "Char"

\* C6: at the end of a frame of the documented loop the frame's effects are:
\* the input queued before the frame replayed, one start, the UI building, one
\* finish, one flush and one UI draw, in that order, and nothing is left queued.
C6_FrameOrder ==
    pc = "next" =>
        LET n == Len(qf) + f0 + 2
        IN  /\ Len(trace) = n + 2
            /\ SubSeq(trace, 1, n) = FrameOpen(f0) \o << <<"finish">> >>
            /\ trace[n + 1][1] = "flush"
            /\ trace[n + 2] = <<"draw", 0>>
            /\ queue = <<>>

\* C6 witness: a start/finish frame with two queued events and a pending
\* engine command has been drawn.
C6_Witness ==
    /\ pc = "next"
    /\ variant = "bracket"
    /\ Len(qf) = 2
    /\ <<"flush", 1>> \in { trace[i] : i \in 1..Len(trace) }

\* C7: get_yakui panics with the borrow error only when a guard of an
\* enclosing ui or cfg call is live.
C7_PanicOnlyWhenNested ==
    call.result = "panic_borrow" => call.held

\* C8: the guard is live only during a public call, so in the user's code
\* between start() and finish() a call of cfg, draw or a focus query does not
\* panic with the borrow error, while a call made inside a closure does.
C8_FreeBetweenStartAndFinish ==
    /\ (closure = "none" => guards = 0)
    /\ (call.nested => call.result = "panic_borrow")
    /\ (/\ bracket = "start"
        /\ ~call.nested
        /\ call.fn \in {"cfg", "draw"} \cup FocusFns
        => call.result # "panic_borrow")

\* C9: only start and ui take events off the queue; only start, finish and ui
\* change the frame bracket; cfg, draw and the focus queries tell the UI
\* library neither an input event nor a start or finish, and finish no input
\* event; a focus query changes nothing but an empty slot and returns the
\* library's flag of its own name.
C9_FrameEffects ==
    [][ /\ (Len(queue') < Len(queue) => call'.fn \in {"start", "ui"})
        /\ (phase' # phase => call'.fn \in {"start", "finish", "ui"})
        /\ (call'.fn \in {"cfg", "draw"} \cup FocusFns /\ ~call'.nested =>
               NoInputIn(trace') /\ NoBracketIn(trace'))
        /\ (call'.fn = "finish" /\ ~call'.nested => NoInputIn(trace'))
        /\ ((\E fn \in FocusFns : has_focus(fn, T0)) =>
               /\ UNCHANGED <<queue, phase, focus, pending_gl, bracket>>
               /\ (YAKUI # None => YAKUI' = YAKUI /\ registered' = registered)
               /\ (call'.result = "ok" => call'.ret = focus[call'.fn]))
      ]_vars

\* C9 witness: has_mouse_focus returned FALSE while the library's input flag
\* is TRUE, in an open frame and with an event still queued.
C9_Witness ==
    /\ call.fn = "has_mouse_focus"
    /\ call.result = "ok"
    /\ call.ret = FALSE
    /\ focus["has_input_focus"]
    /\ phase = "started"
    /\ queue # <<>>

====
